---- MODULE Spec2Model ----
(***************************************************************************)
(* Bayronik model-training core: the training orchestrator (train.py), the *)
(* export pipeline (exporter.py) and the two dataset backends              *)
(* (scripts/dataset.py, scripts/dataset_hdf5.py).                          *)
(*                                                                         *)
(* Three specifications share the module:                                  *)
(*   Spec / FairSpec  one run of train_model, process interruption, and    *)
(*                    invocations of export_model_to_torchscript;          *)
(*   DataSpec         construction of and reads from the dataset objects;  *)
(*   SplitSpec        the train/validation split of train_model.           *)
(***************************************************************************)
EXTENDS Integers, Sequences, FiniteSets, TLC

VARIABLES
    \* ---- train.py / exporter.py ----
    pc,             \* position of train_model
    num_epochs,     \* config.NUM_EPOCHS of this run
    epoch,          \* loop variable of `for epoch in range(NUM_EPOCHS)`
    train_size,     \* len(train_dataset)
    val_size,       \* len(val_dataset)
    params,         \* version of model.state_dict(): optimizer epochs applied
    best_val_loss,  \* train.py:53
    avg_val_loss,   \* train.py:80
    files,          \* the weights directory: path -> file content
    export_result,  \* outcome of the last export_model_to_torchscript call
    \* history of the run (what happened, in order)
    val_losses,     \* avg_val_loss of epochs 1..e
    best_written,   \* epochs (1-based) in which torch.save opened the best file
    decided,        \* number of CheckpointDecisions executed
    final_attempts, \* executions of the final-save block
    save_failed,    \* checkpoint writes that raised: subset of {"best","final"}
    phase_log,      \* phases executed, in order
    \* ---- scripts/dataset.py / scripts/dataset_hdf5.py ----
    disk,           \* the archive pair on disk
    ds,             \* dataset objects by backend/mode
    result,         \* outcome of the last __getitem__
    \* ---- the split of train.py:35-37 ----
    split           \* outcome of random_split

trainVars == <<pc, num_epochs, epoch, train_size, val_size, params,
               best_val_loss, avg_val_loss, files, export_result, val_losses,
               best_written, decided, final_attempts, save_failed, phase_log>>
dataVars == <<disk, ds, result>>
vars == <<trainVars, dataVars, split>>

(***************************************************************************)
(* Bounds of the model.                                                    *)
(***************************************************************************)
MaxEpochs == 3      \* NUM_EPOCHS ranges over 1..MaxEpochs
MaxSims == 2        \* samples per archive range over 0..MaxSims
MaxLen == 100     \* dataset lengths of the split range over 0..MaxLen

(***************************************************************************)
(* Losses.  A loss is a Python float: a finite value, +infinity or NaN.    *)
(* Finite values are small naturals; Inf is above them all; every ordered  *)
(* comparison with NaN is False.                                           *)
(***************************************************************************)
Inf == 99
NaN == -1
FiniteLosses == {1, 2, 3}
LossValues == FiniteLosses \cup {Inf, NaN}

\* The mutated comparison: `<=` in place of `<`.
LessOrEqual(a, b) == a # NaN /\ b # NaN /\ a <= b

\* Python's float `a < b`.
Less(a, b) == a # NaN /\ b # NaN /\ a < b

(***************************************************************************)
(* Configuration (config.py) and the loaders' lengths.                     *)
(***************************************************************************)
BATCH_SIZE == 4

\* len(DataLoader(d, batch_size=BATCH_SIZE)) = ceil(len(d) / BATCH_SIZE)
LoaderLen(n) == (n + BATCH_SIZE - 1) \div BATCH_SIZE

\* int(n * 0.1): the double product truncated toward zero.  The double 0.1
\* is just above 1/10 and rounding is monotone, so the product is never
\* below an integer n/10; for dataset sizes (n < 2^50) its excess over n/10
\* is far below 1/10, the distance to the next integer.  The truncation is
\* therefore the integer quotient.
ValSize(n) == n \div 10

TrainSize(n) == n - ValSize(n)

\* Lengths of the flat-array dataset that train_model may load.
DatasetLens == {0, 5, 20, 23}

(***************************************************************************)
(* Files of the weights directory.                                         *)
(***************************************************************************)
Paths == {"best", "final", "traced"}
Absent == [state |-> "absent", run |-> "none", ver |-> 0]
Partial == [state |-> "partial", run |-> "this", ver |-> 0]
Complete(r, v) == [state |-> "complete", run |-> r, ver |-> v]
Prior == Complete("prior", 0)

Exists(p) == files[p].state # "absent"

NoExport == [called |-> FALSE, raised |-> "none", reported |-> "none",
             graph_written |-> FALSE]

Terminal == {"done", "aborted", "interrupted"}

(***************************************************************************)
(* train_model                                                             *)
(***************************************************************************)
TrainInit ==
    /\ pc = "start"
    /\ num_epochs \in 1..MaxEpochs
    /\ epoch = 0
    /\ train_size = 0
    /\ val_size = 0
    /\ params = 0
    /\ best_val_loss = Inf
    /\ avg_val_loss = 0
    /\ files \in [Paths -> {Absent, Prior}]
    /\ export_result = NoExport
    /\ val_losses = <<>>
    /\ best_written = {}
    /\ decided = 0
    /\ final_attempts = 0
    /\ save_failed = {}
    /\ phase_log = <<>>

\* The mutated loop bound: one epoch too many.
AfterEpochOffByOne == IF epoch + 1 <= num_epochs THEN "train" ELSE "finalize"

\* Where the loop goes after the body of epoch `epoch` (0-based).
AfterEpoch == IF epoch + 1 < num_epochs THEN "train" ELSE "finalize"

\* train.py:30-53, the dataset constructed.
LoadData ==
    /\ pc = "start"
    /\ \E n \in DatasetLens :
        /\ val_size' = ValSize(n)
        /\ train_size' = TrainSize(n)
    /\ best_val_loss' = Inf
    /\ pc' = IF 0 < num_epochs THEN "train" ELSE "finalize"
    /\ UNCHANGED <<dataVars, split>>
    /\ UNCHANGED <<num_epochs, epoch, params, avg_val_loss, files,
                   export_result, val_losses, best_written, decided,
                   final_attempts, save_failed, phase_log>>

\* train.py:30-34, CAMELSDataset raising (missing files, mismatched counts).
LoadDataFails ==
    /\ pc = "start"
    /\ pc' = "aborted"
    /\ UNCHANGED <<dataVars, split>>
    /\ UNCHANGED <<num_epochs, epoch, train_size, val_size, params,
                   best_val_loss, avg_val_loss, files, export_result,
                   val_losses, best_written, decided, final_attempts,
                   save_failed, phase_log>>

\* train.py:56-68.  len(train_loader) = 0 makes line 68 divide by zero.
TrainPhase ==
    /\ pc = "train"
    /\ phase_log' = Append(phase_log, "TrainPhase")
    /\ IF LoaderLen(train_size) = 0
          THEN /\ pc' = "aborted"
               /\ UNCHANGED params
          ELSE /\ pc' = "validate"
               /\ params' = params + 1
    /\ UNCHANGED <<dataVars, split>>
    /\ UNCHANGED <<num_epochs, epoch, train_size, val_size, best_val_loss,
                   avg_val_loss, files, export_result, val_losses,
                   best_written, decided, final_attempts, save_failed>>

\* train.py:70-88.  len(val_loader) = 0 makes line 80 divide by zero.
ValidatePhase ==
    /\ pc = "validate"
    /\ phase_log' = Append(phase_log, "ValidatePhase")
    /\ IF LoaderLen(val_size) = 0
          THEN /\ pc' = "aborted"
               /\ UNCHANGED <<avg_val_loss, val_losses>>
          ELSE /\ \E l \in LossValues :
                    /\ avg_val_loss' = l
                    /\ val_losses' = Append(val_losses, l)
               /\ pc' = "decide"
    /\ UNCHANGED <<dataVars, split>>
    /\ UNCHANGED <<num_epochs, epoch, train_size, val_size, params,
                   best_val_loss, files, export_result, best_written,
                   decided, final_attempts, save_failed>>

\* train.py:91, the condition false: nothing is saved.
DecideKeep ==
    /\ pc = "decide"
    /\ ~Less(avg_val_loss, best_val_loss)
    /\ decided' = decided + 1
    /\ phase_log' = Append(phase_log, "CheckpointDecision")
    /\ epoch' = epoch + 1
    /\ pc' = AfterEpoch
    /\ UNCHANGED <<dataVars, split>>
    /\ UNCHANGED <<num_epochs, train_size, val_size, params, best_val_loss,
                   avg_val_loss, files, export_result, val_losses,
                   best_written, final_attempts, save_failed>>

\* The mutated branch: the file is saved but the best-loss record of
\* train.py:92 is not updated.
DecideSaveNoRecord ==
    /\ pc = "decide"
    /\ Less(avg_val_loss, best_val_loss)
    /\ decided' = decided + 1
    /\ phase_log' = Append(phase_log, "CheckpointDecision")
    /\ files' = [files EXCEPT !["best"] = Partial]
    /\ best_written' = best_written \cup {epoch + 1}
    /\ pc' = "saveBest"
    /\ UNCHANGED <<dataVars, split>>
    /\ UNCHANGED <<num_epochs, epoch, train_size, val_size, params,
                   best_val_loss, avg_val_loss, export_result, val_losses,
                   final_attempts, save_failed>>

\* train.py:91-95, the condition true and torch.save opens the best file:
\* the file is truncated and holds an incomplete archive until the save ends.
DecideSave ==
    /\ pc = "decide"
    /\ Less(avg_val_loss, best_val_loss)
    /\ best_val_loss' = avg_val_loss
    /\ decided' = decided + 1
    /\ phase_log' = Append(phase_log, "CheckpointDecision")
    /\ files' = [files EXCEPT !["best"] = Partial]
    /\ best_written' = best_written \cup {epoch + 1}
    /\ pc' = "saveBest"
    /\ UNCHANGED <<dataVars, split>>
    /\ UNCHANGED <<num_epochs, epoch, train_size, val_size, params,
                   avg_val_loss, export_result, val_losses, final_attempts,
                   save_failed>>

\* train.py:91-95, os.makedirs or the open of torch.save raising: no handler
\* encloses the block, so the exception leaves train_model.
DecideSaveRaises ==
    /\ pc = "decide"
    /\ Less(avg_val_loss, best_val_loss)
    /\ best_val_loss' = avg_val_loss
    /\ decided' = decided + 1
    /\ phase_log' = Append(phase_log, "CheckpointDecision")
    /\ save_failed' = save_failed \cup {"best"}
    /\ pc' = "aborted"
    /\ UNCHANGED <<dataVars, split>>
    /\ UNCHANGED <<num_epochs, epoch, train_size, val_size, params,
                   avg_val_loss, files, export_result, val_losses,
                   best_written, final_attempts>>

\* train.py:95-96, torch.save completing.
SaveBestDone ==
    /\ pc = "saveBest"
    /\ files' = [files EXCEPT !["best"] = Complete("this", params)]
    /\ epoch' = epoch + 1
    /\ pc' = AfterEpoch
    /\ UNCHANGED <<dataVars, split>>
    /\ UNCHANGED <<num_epochs, train_size, val_size, params, best_val_loss,
                   avg_val_loss, export_result, val_losses, best_written,
                   decided, final_attempts, save_failed, phase_log>>

\* train.py:95, torch.save raising while it writes (disk full): the
\* exception leaves train_model and the file stays as far as it was written.
SaveBestRaises ==
    /\ pc = "saveBest"
    /\ save_failed' = save_failed \cup {"best"}
    /\ pc' = "aborted"
    /\ UNCHANGED <<dataVars, split>>
    /\ UNCHANGED <<num_epochs, epoch, train_size, val_size, params,
                   best_val_loss, avg_val_loss, files, export_result,
                   val_losses, best_written, decided, final_attempts,
                   phase_log>>

\* train.py:101-113, torch.save opens the final file.
Finalize ==
    /\ pc = "finalize"
    /\ final_attempts' = final_attempts + 1
    /\ phase_log' = Append(phase_log, "Finalize")
    /\ files' = [files EXCEPT !["final"] = Partial]
    /\ pc' = "saveFinal"
    /\ UNCHANGED <<dataVars, split>>
    /\ UNCHANGED <<num_epochs, epoch, train_size, val_size, params,
                   best_val_loss, avg_val_loss, export_result, val_losses,
                   best_written, decided, save_failed>>

\* The mutated handler: the final-save block without its try/except.
FinalizeRaisesUncaught ==
    /\ pc = "finalize"
    /\ final_attempts' = final_attempts + 1
    /\ phase_log' = Append(phase_log, "Finalize")
    /\ save_failed' = save_failed \cup {"final"}
    /\ pc' = "aborted"
    /\ UNCHANGED <<dataVars, split>>
    /\ UNCHANGED <<num_epochs, epoch, train_size, val_size, params,
                   best_val_loss, avg_val_loss, files, export_result,
                   val_losses, best_written, decided>>

\* train.py:101-127, os.makedirs or the open raising: caught at line 118,
\* reported, and train_model returns.
FinalizeRaises ==
    /\ pc = "finalize"
    /\ final_attempts' = final_attempts + 1
    /\ phase_log' = Append(phase_log, "Finalize")
    /\ save_failed' = save_failed \cup {"final"}
    /\ pc' = "done"
    /\ UNCHANGED <<dataVars, split>>
    /\ UNCHANGED <<num_epochs, epoch, train_size, val_size, params,
                   best_val_loss, avg_val_loss, files, export_result,
                   val_losses, best_written, decided>>

\* train.py:113-127, torch.save completing.
SaveFinalDone ==
    /\ pc = "saveFinal"
    /\ files' = [files EXCEPT !["final"] = Complete("this", params)]
    /\ pc' = "done"
    /\ UNCHANGED <<dataVars, split>>
    /\ UNCHANGED <<num_epochs, epoch, train_size, val_size, params,
                   best_val_loss, avg_val_loss, export_result, val_losses,
                   best_written, decided, final_attempts, save_failed,
                   phase_log>>

\* train.py:113-127, torch.save raising while it writes: caught at line 118.
SaveFinalRaises ==
    /\ pc = "saveFinal"
    /\ save_failed' = save_failed \cup {"final"}
    /\ pc' = "done"
    /\ UNCHANGED <<dataVars, split>>
    /\ UNCHANGED <<num_epochs, epoch, train_size, val_size, params,
                   best_val_loss, avg_val_loss, files, export_result,
                   val_losses, best_written, decided, final_attempts,
                   phase_log>>

\* The training process killed (SIGKILL, power loss) wherever it is.
Interrupt ==
    /\ pc \notin Terminal \cup {"start"}
    /\ pc' = "interrupted"
    /\ UNCHANGED <<dataVars, split>>
    /\ UNCHANGED <<num_epochs, epoch, train_size, val_size, params,
                   best_val_loss, avg_val_loss, files, export_result,
                   val_losses, best_written, decided, final_attempts,
                   save_failed, phase_log>>

(***************************************************************************)
(* export_model_to_torchscript, run while no training process is alive.    *)
(***************************************************************************)
\* exporter.py:20-23: the weights file is missing.
ExportMissing ==
    /\ pc \in Terminal \cup {"start"}
    /\ ~Exists("final")
    /\ export_result' = [called |-> TRUE, raised |-> "none",
                         reported |-> "final", graph_written |-> FALSE]
    /\ UNCHANGED <<dataVars, split>>
    /\ UNCHANGED <<pc, num_epochs, epoch, train_size, val_size, params,
                   best_val_loss, avg_val_loss, files, val_losses,
                   best_written, decided, final_attempts, save_failed,
                   phase_log>>

\* exporter.py:25-50: the weights file holds a complete snapshot.
ExportGraph ==
    /\ pc \in Terminal \cup {"start"}
    /\ files["final"].state = "complete"
    /\ export_result' = [called |-> TRUE, raised |-> "none",
                         reported |-> "none", graph_written |-> TRUE]
    /\ files' = [files EXCEPT !["traced"] =
                    Complete(files["final"].run, files["final"].ver)]
    /\ UNCHANGED <<dataVars, split>>
    /\ UNCHANGED <<pc, num_epochs, epoch, train_size, val_size, params,
                   best_val_loss, avg_val_loss, val_losses, best_written,
                   decided, final_attempts, save_failed, phase_log>>

\* exporter.py:33: torch.load on an incomplete archive raises.
ExportCorrupt ==
    /\ pc \in Terminal \cup {"start"}
    /\ files["final"].state = "partial"
    /\ export_result' = [called |-> TRUE, raised |-> "load",
                         reported |-> "none", graph_written |-> FALSE]
    /\ UNCHANGED <<dataVars, split>>
    /\ UNCHANGED <<pc, num_epochs, epoch, train_size, val_size, params,
                   best_val_loss, avg_val_loss, files, val_losses,
                   best_written, decided, final_attempts, save_failed,
                   phase_log>>

(***************************************************************************)
(* The archives and the dataset classes.                                   *)
(*                                                                         *)
(* A map is one number: the raw value stored on disk, in units in which    *)
(* float32 holds the even values only.  An archive is the sequence of its  *)
(* maps, or is missing.                                                    *)
(***************************************************************************)
RawValues == {1, 2}

RECURSIVE SeqsUpTo(_, _)
SeqsUpTo(S, n) ==
    IF n = 0 THEN {<<>>}
    ELSE LET shorter == SeqsUpTo(S, n - 1)
         IN  shorter \cup {Append(q, x) : q \in {r \in shorter : Len(r) = n - 1},
                                           x \in S}

Missing == [exists |-> FALSE, maps |-> <<>>]
Archive(maps) == [exists |-> TRUE, maps |-> maps]
Archives == {Missing} \cup {Archive(m) : m \in SeqsUpTo(RawValues, MaxSims)}

\* ndarray.astype(np.float32): round to nearest, ties to the even mantissa.
Float32(v) ==
    IF v % 2 = 0 THEN v
    ELSE IF (v \div 2) % 2 = 0 THEN v - 1 ELSE v + 1

AsFloat32(maps) == [i \in 1..Len(maps) |-> Float32(maps[i])]

RECURSIVE Log2Floor(_)
Log2Floor(n) == IF n <= 1 THEN 0 ELSE 1 + Log2Floor(n \div 2)

\* np.log1p, on the grid of the model: the exponent of 1 + x.
Log1p(x) == Log2Floor(1 + x)

\* torch.from_numpy(m).unsqueeze(0): a leading channel axis of size 1.
Unsqueeze(m) == <<m>>

\* The outcome of a call: a value returned or an exception raised.
Returned(v) == [ok |-> TRUE, err |-> "none", value |-> v]
Raised(e) == [ok |-> FALSE, err |-> e, value |-> <<>>]

\* Integer indexing of a numpy array or an h5py dataset of maps (0-based):
\* an index in -n..-1 counts from the end, any index outside -n..n-1 raises.
IndexMaps(maps, idx) ==
    LET n == Len(maps)
    IN  IF 0 <= idx /\ idx < n THEN Returned(maps[idx + 1])
        ELSE IF -n <= idx /\ idx < 0 THEN Returned(maps[n + idx + 1])
        ELSE Raised("IndexError")

\* The normalisation and tensor conversion shared by both __getitem__s.
Prepare(input_map, target_map) ==
    IF ~input_map.ok THEN input_map
    ELSE IF ~target_map.ok THEN target_map
    ELSE Returned(<<Unsqueeze(Log1p(input_map.value)),
                    Unsqueeze(Log1p(target_map.value))>>)

Modes == {"npy", "h5lazy", "h5cached"}

NotBuilt == [built |-> FALSE, cache_in_memory |-> FALSE, n_simulations |-> 0,
             input_cache |-> <<>>, target_cache |-> <<>>]

\* CAMELSDataset.__init__ over the archive pair d: the object, or the
\* exception raised.  input_maps and target_maps are held in input_cache and
\* target_cache.
NpyInit(d) ==
    IF ~d.input.exists \/ ~d.target.exists THEN Raised("FileNotFoundError")
    ELSE IF Len(d.input.maps) # Len(d.target.maps) THEN Raised("ValueError")
    ELSE Returned([built |-> TRUE, cache_in_memory |-> TRUE,
                   n_simulations |-> Len(d.input.maps),
                   input_cache |-> AsFloat32(d.input.maps),
                   target_cache |-> AsFloat32(d.target.maps)])

\* The mutated cache: the archives' values kept at their stored precision.
H5CacheNoCast(maps) == maps

\* f['Maps_...'][:].astype(np.float32)
H5Cache(maps) == AsFloat32(maps)

\* CAMELSDatasetHDF5.__init__ over the archive pair d.
H5Init(d, cache_in_memory) ==
    IF ~d.input.exists \/ ~d.target.exists THEN Raised("FileNotFoundError")
    ELSE Returned([built |-> TRUE, cache_in_memory |-> cache_in_memory,
                   n_simulations |-> Len(d.input.maps),
                   input_cache |-> IF cache_in_memory
                                      THEN H5Cache(d.input.maps) ELSE <<>>,
                   target_cache |-> IF cache_in_memory
                                       THEN H5Cache(d.target.maps) ELSE <<>>])

\* obj.__len__()
DsLen(obj) == obj.n_simulations

\* CAMELSDataset.__getitem__(idx)
NpyGetItem(obj, idx) ==
    Prepare(IndexMaps(obj.input_cache, idx), IndexMaps(obj.target_cache, idx))

\* f['Maps_...'][idx].astype(np.float32), the archive opened for this read.
H5ReadMap(archive, idx) ==
    LET m == IndexMaps(archive.maps, idx)
    IN  IF m.ok THEN Returned(Float32(m.value)) ELSE m

\* CAMELSDatasetHDF5.__getitem__(idx) with the archive pair d on disk.
H5GetItem(obj, d, idx) ==
    IF obj.cache_in_memory
       THEN Prepare(IndexMaps(obj.input_cache, idx),
                    IndexMaps(obj.target_cache, idx))
       ELSE Prepare(H5ReadMap(d.input, idx), H5ReadMap(d.target, idx))

GetItem(m, idx) ==
    IF m = "npy" THEN NpyGetItem(ds[m], idx) ELSE H5GetItem(ds[m], disk, idx)

\* The indices a caller may pass.
Indices == (-(MaxSims + 1))..(MaxSims + 1)

NoCall == [call |-> "none", mode |-> "none", idx |-> 0, out |-> Raised("none")]

TrainIdle ==
    /\ pc = "idle"
    /\ num_epochs = 0
    /\ epoch = 0
    /\ train_size = 0
    /\ val_size = 0
    /\ params = 0
    /\ best_val_loss = Inf
    /\ avg_val_loss = 0
    /\ files = [p \in Paths |-> Absent]
    /\ export_result = NoExport
    /\ val_losses = <<>>
    /\ best_written = {}
    /\ decided = 0
    /\ final_attempts = 0
    /\ save_failed = {}
    /\ phase_log = <<>>

SplitIdle == split = <<>>

DataIdle ==
    /\ disk = <<>>
    /\ ds = <<>>
    /\ result = <<>>

DataInit ==
    /\ disk \in [input : Archives, target : Archives]
    /\ ds = [m \in Modes |-> NotBuilt]
    /\ result = NoCall
    /\ TrainIdle
    /\ SplitIdle

\* CAMELSDataset(root_dir, ...)
ConstructNpy ==
    /\ ~ds["npy"].built
    /\ LET r == NpyInit(disk)
       IN  /\ ds' = IF r.ok THEN [ds EXCEPT !["npy"] = r.value] ELSE ds
           /\ result' = [call |-> "init", mode |-> "npy", idx |-> 0,
                         out |-> IF r.ok THEN Returned(<<>>) ELSE r]
    /\ UNCHANGED <<trainVars, split, disk>>

\* CAMELSDatasetHDF5(root_dir, ..., cache_in_memory=c)
ConstructH5 ==
    /\ \E c \in BOOLEAN :
        LET m == IF c THEN "h5cached" ELSE "h5lazy"
            r == H5Init(disk, c)
        IN  /\ ~ds[m].built
            /\ ds' = IF r.ok THEN [ds EXCEPT ![m] = r.value] ELSE ds
            /\ result' = [call |-> "init", mode |-> m, idx |-> 0,
                          out |-> IF r.ok THEN Returned(<<>>) ELSE r]
    /\ UNCHANGED <<trainVars, split, disk>>

\* dataset[idx] on a constructed dataset of either class.
ReadItem ==
    /\ \E m \in Modes, idx \in Indices :
        /\ ds[m].built
        /\ result' = [call |-> "getitem", mode |-> m, idx |-> idx,
                      out |-> GetItem(m, idx)]
    /\ UNCHANGED <<trainVars, split, disk, ds>>

DataNext ==
    \/ ConstructNpy
    \/ ConstructH5
    \/ ReadItem

DataSpec == DataInit /\ [][DataNext]_vars

(***************************************************************************)
(* The split of train.py:35-37.  random_split(dataset, [train_size,        *)
(* val_size]) draws a permutation of range(n) and hands each subset the    *)
(* next slice of it, of the length asked for.  The permutations drawn here *)
(* are i |-> (a * i + k) mod n for multipliers a coprime with n.           *)
(***************************************************************************)
RECURSIVE GCD(_, _)
GCD(a, b) == IF b = 0 THEN a ELSE GCD(b, a % b)

Multipliers(n) == {a \in {1, 3, 7, n - 1} : a >= 1 /\ GCD(a, n) = 1}

\* torch.randperm(n), as a sequence of the indices 0..n-1.
RandPerm(n, a, k) == [i \in 1..n |-> (a * (i - 1) + k) % n]

\* indices[lo:hi], Python's slice of a list (0-based, hi excluded).
Slice(indices, lo, hi) == [i \in 1..(hi - lo) |-> indices[lo + i]]

\* The mutated slices: the second subset starts one element early.
SubsetsOverlapping(indices, lengths) ==
    <<Slice(indices, 0, lengths[1]),
      IF lengths[2] = 0 THEN <<>>
      ELSE Slice(indices, lengths[1] - 1, lengths[1] - 1 + lengths[2])>>

\* random_split: subset j is indices[offset_j - length_j : offset_j], the
\* offsets being the running sums of the lengths.
Subsets(indices, lengths) ==
    <<Slice(indices, 0, lengths[1]),
      Slice(indices, lengths[1], lengths[1] + lengths[2])>>

SplitInit ==
    /\ split \in {[n |-> n, done |-> FALSE, train_indices |-> <<>>,
                   val_indices |-> <<>>] : n \in 0..MaxLen}
    /\ TrainIdle
    /\ DataIdle

\* train.py:35-37
RandomSplit ==
    /\ ~split.done
    /\ \E a \in Multipliers(split.n), k \in 0..split.n :
        /\ k < split.n \/ split.n = 0
        /\ LET val == ValSize(split.n)
               train == split.n - val
               subsets == Subsets(RandPerm(split.n, a, k), <<train, val>>)
           IN  split' = [split EXCEPT !.done = TRUE,
                                      !.train_indices = subsets[1],
                                      !.val_indices = subsets[2]]
    /\ UNCHANGED <<trainVars, dataVars>>

SplitNext == RandomSplit

SplitSpec == SplitInit /\ [][SplitNext]_vars

Init ==
    /\ TrainInit
    /\ DataIdle
    /\ SplitIdle

Next ==
    \/ LoadData
    \/ LoadDataFails
    \/ TrainPhase
    \/ ValidatePhase
    \/ DecideKeep
    \/ DecideSave
    \/ DecideSaveRaises
    \/ SaveBestDone
    \/ SaveBestRaises
    \/ Finalize
    \/ FinalizeRaises
    \/ SaveFinalDone
    \/ SaveFinalRaises
    \/ Interrupt
    \/ ExportMissing
    \/ ExportGraph
    \/ ExportCorrupt

Spec == Init /\ [][Next]_vars

\* The steps of the training process itself; the process runs until it
\* returns, raises or is killed.
TrainStep ==
    \/ LoadData
    \/ LoadDataFails
    \/ TrainPhase
    \/ ValidatePhase
    \/ DecideKeep
    \/ DecideSave
    \/ DecideSaveRaises
    \/ SaveBestDone
    \/ SaveBestRaises
    \/ Finalize
    \/ FinalizeRaises
    \/ SaveFinalDone
    \/ SaveFinalRaises

FairSpec == Spec /\ WF_vars(TrainStep)

(***************************************************************************)
(* Properties of train_model and export_model_to_torchscript.              *)
(***************************************************************************)
Checkpoints == {"best", "final"}

\* The losses of epochs 1..Len(val_losses) strictly increase.
Increasing ==
    \A j \in 1..(Len(val_losses) - 1) : Less(val_losses[j], val_losses[j + 1])

\* C1 (as stated): the best file is written in epoch e only if the loss of
\* epoch e is strictly lower than the loss of every earlier epoch; a finite
\* loss in epoch 1 always writes; an increasing sequence never overwrites
\* the file of epoch 1.
C1_WriteOnlyBelowEveryEarlierLoss ==
    /\ \A e \in best_written :
          \A j \in 1..(e - 1) : Less(val_losses[e], val_losses[j])
    /\ (decided >= 1 /\ val_losses[1] \in FiniteLosses)
          => (1 \in best_written \/ "best" \in save_failed)
    /\ Increasing => best_written \subseteq {1}

\* C1 (amended): the best file is written in epoch e only if the loss of
\* epoch e is not NaN and is strictly lower than every earlier epoch's loss
\* that is not NaN (an equal loss never writes); a finite loss in epoch 1
\* always reaches the write; an increasing sequence of losses never
\* overwrites the file written in epoch 1.
C1_WriteOnlyBelowEveryEarlierComparableLoss ==
    /\ \A e \in best_written :
          /\ val_losses[e] # NaN
          /\ \A j \in 1..(e - 1) :
                val_losses[j] = NaN \/ val_losses[e] < val_losses[j]
    /\ (decided >= 1 /\ val_losses[1] \in FiniteLosses)
          => (1 \in best_written \/ "best" \in save_failed)
    /\ Increasing => best_written \subseteq {1}

\* Three epochs with increasing losses, all decided, the best file written
\* in epoch 1 only.
C1_Witness ==
    /\ decided = 3
    /\ val_losses = <<1, 2, 3>>
    /\ best_written = {1}
    /\ files["best"] = Complete("this", 1)

\* C2: after the training process has been interrupted, wherever it was,
\* every checkpoint path is absent or holds one complete snapshot.
C2_NoPartialCheckpointAfterInterrupt ==
    pc = "interrupted" => \A p \in Checkpoints : files[p].state # "partial"

\* C3: a failed write of the best checkpoint does not abort the run.
C3_BestWriteFailureNotFatal ==
    "best" \in save_failed => pc # "aborted"

\* The final write, begun or ended, with the best file as it is.
FinalWriteStep ==
    Finalize \/ FinalizeRaises \/ SaveFinalDone \/ SaveFinalRaises

\* C4: the final checkpoint is attempted exactly once, after the last epoch
\* and whatever the losses were; a failure of that write is caught and the
\* function returns; the final write never changes the best file.
C4_FinalAttemptedOnceBestKept ==
    /\ [](final_attempts <= 1)
    /\ [](pc \in {"saveFinal", "done"} => final_attempts = 1 /\ decided = num_epochs)
    /\ []((final_attempts = 0 /\ pc \notin {"interrupted", "aborted"}
              /\ decided = num_epochs /\ pc # "saveBest")
            => pc = "finalize")
    /\ []("final" \in save_failed => pc = "done")
    /\ [][FinalWriteStep => files'["best"] = files["best"]]_vars

\* The run returned with the final write failed and this run's best file
\* in place.
C4_Witness ==
    /\ pc = "done"
    /\ "final" \in save_failed
    /\ files["best"].state = "complete"
    /\ files["best"].run = "this"
    /\ files["final"].state = "partial"

\* C5: an export that finds no checkpoint at the expected path raises.
C5_MissingCheckpointRaises ==
    (export_result.called /\ export_result.reported = "final")
        => export_result.raised # "none"

\* The phases of a run of n epochs, in order.
ExpectedLog(n) ==
    [i \in 1..(3 * n + 1) |->
        IF i = 3 * n + 1 THEN "Finalize"
        ELSE IF i % 3 = 1 THEN "TrainPhase"
        ELSE IF i % 3 = 2 THEN "ValidatePhase"
        ELSE "CheckpointDecision"]

C6_MismatchedCountsNeverConstructed ==
    \A m \in Modes :
        ds[m].built => Len(disk.input.maps) = Len(disk.target.maps)

\* Two calls agree: both return the same value, or both raise.
SameOutcome(x, y) == x.ok = y.ok /\ (x.ok => x.value = y.value)

\* C8: over the same archive pair the cached and the lazy dataset report
\* the same length and __getitem__(i) agrees for every 0 <= i < length; a
\* read in any mode changes neither the dataset objects nor the archives,
\* which are all that the result of a later read depends on.
C8_CachedEqualsLazy ==
    /\ []((ds["h5cached"].built /\ ds["h5lazy"].built) =>
            /\ DsLen(ds["h5cached"]) = DsLen(ds["h5lazy"])
            /\ \A i \in 0..(DsLen(ds["h5lazy"]) - 1) :
                  SameOutcome(H5GetItem(ds["h5cached"], disk, i),
                              H5GetItem(ds["h5lazy"], disk, i)))
    /\ [][ReadItem => (ds' = ds /\ disk' = disk)]_vars

\* Both datasets built over archives whose stored values float32 rounds,
\* and a lazy read of such a sample returned.
C8_Witness ==
    /\ ds["h5cached"].built
    /\ ds["h5lazy"].built
    /\ disk.input.maps = <<2, 1>>
    /\ disk.target.maps = <<1, 2>>
    /\ result.call = "getitem"
    /\ result.mode = "h5lazy"
    /\ result.idx = 1
    /\ result.out = Returned(<<<<0>>, <<1>>>>)

\* C9: over archives of equal sample counts, __getitem__(index) returns a
\* pair exactly when 0 <= index < length and raises IndexError for every
\* other index.
C9_IndexErrorOutsideRange ==
    (result.call = "getitem"
        /\ Len(disk.input.maps) = Len(disk.target.maps)) =>
        LET inRange == 0 <= result.idx /\ result.idx < DsLen(ds[result.mode])
        IN  /\ result.out.ok <=> inRange
            /\ ~inRange => result.out.err = "IndexError"

(***************************************************************************)
(* Properties of the split.                                                *)
(***************************************************************************)
Range(q) == {q[i] : i \in 1..Len(q)}

\* C7: the split of a dataset of length n has floor(n / 10) validation
\* indices and n minus that many training indices, no index twice, and
\* together they are exactly 0..n-1.
C7_SplitIsPartition ==
    split.done =>
        /\ Len(split.val_indices) = split.n \div 10
        /\ Len(split.train_indices) = split.n - Len(split.val_indices)
        /\ Cardinality(Range(split.train_indices)) = Len(split.train_indices)
        /\ Cardinality(Range(split.val_indices)) = Len(split.val_indices)
        /\ Range(split.train_indices) \cap Range(split.val_indices) = {}
        /\ Range(split.train_indices) \cup Range(split.val_indices)
              = 0..(split.n - 1)

\* A dataset of 100 samples split into 90 and 10, shuffled.
C7_Witness ==
    /\ split.done
    /\ split.n = 100
    /\ Len(split.train_indices) = 90
    /\ Len(split.val_indices) = 10
    /\ split.train_indices[1] = 5
    /\ split.train_indices[2] = 8

(***************************************************************************)
(* The best-loss record and the contents of the checkpoints.               *)
(***************************************************************************)
\* The earliest of the epochs 1..decided whose loss equals best_val_loss.
EarliestBestEpoch ==
    CHOOSE e \in 1..decided :
        /\ val_losses[e] = best_val_loss
        /\ \A j \in 1..(e - 1) : val_losses[j] # best_val_loss

\* Every write of the best file that was begun has completed.
BestWritesSucceeded ==
    "best" \notin save_failed /\ files["best"].state # "partial"

\* The final file written by this run holds the parameters after the last
\* epoch.
FinalHoldsLastParams ==
    (files["final"].state = "complete" /\ files["final"].run = "this")
        => files["final"].ver = num_epochs

\* C11 (as stated): after the CheckpointDecision of epoch e, best_val_loss
\* is the minimum of the losses of epochs 1..e: it is one of them and none
\* is below it; when every best write succeeded the best file holds the
\* snapshot of the earliest epoch that attained it; the final file holds
\* the parameters after epoch N.
C11_BestLossIsMinimumOfLosses ==
    /\ decided >= 1 =>
          /\ \E j \in 1..decided : val_losses[j] = best_val_loss
          /\ \A j \in 1..decided : LessOrEqual(best_val_loss, val_losses[j])
          /\ BestWritesSucceeded
                => files["best"] = Complete("this", EarliestBestEpoch)
    /\ FinalHoldsLastParams

\* The least of +infinity and the losses of epochs 1..e that are not NaN.
MinComparableLoss(e) ==
    LET S == {Inf} \cup ({val_losses[j] : j \in 1..e} \ {NaN})
    IN  CHOOSE m \in S : \A x \in S : m <= x

\* C11 (amended): after the CheckpointDecision of epoch e, best_val_loss is
\* the least of +infinity and the losses of epochs 1..e that are not NaN,
\* and it never increases; when that least value is finite and every best
\* write succeeded, the best file holds the snapshot taken at the end of the
\* earliest epoch that attained it; the final file, once written, holds the
\* parameters after epoch N.
C11_BestLossIsMinimumOfComparableLosses ==
    /\ [](decided >= 1 =>
            /\ best_val_loss = MinComparableLoss(decided)
            /\ (best_val_loss < Inf /\ BestWritesSucceeded)
                  => files["best"] = Complete("this", EarliestBestEpoch))
    /\ [](FinalHoldsLastParams)
    /\ [][best_val_loss' <= best_val_loss]_vars

\* Three epochs with losses 2, 1, 1: the best file is the snapshot of
\* epoch 2, the final file that of epoch 3.
C11_Witness ==
    /\ pc = "done"
    /\ decided = 3
    /\ val_losses = <<2, 1, 1>>
    /\ best_val_loss = 1
    /\ files["best"] = Complete("this", 2)
    /\ files["final"] = Complete("this", 3)

====
